---- MODULE Spec2Model ----
(***************************************************************************)
(* Model of the analytics layer of the job-market platform                 *)
(* (src/analytics.py) over the jobs table (src/models/job.py).             *)
(*                                                                         *)
(* Conventions                                                             *)
(*  - A Python/SQL string is a sequence of one-character strings.          *)
(*  - SQL NULL / Python None is NULL for text columns and NullNum for the  *)
(*    Float columns.                                                       *)
(*  - A midpoint (salary_min + salary_max) / 2 may be a half-integer; every*)
(*    quantity that can hold a midpoint (salaries, min_salary, max_salary, *)
(*    median_salary) is stored as TWICE its value.  round(...) results     *)
(*    (avg_salary) are plain integers.                                     *)
(*  - A value of round(x, 1) is stored in tenths (1000 is 100.0).          *)
(*  - A call returns Ok(value) or Raise(exception name).                   *)
(*  - query.all() without ORDER BY returns the rows in insertion (id)      *)
(*    order; the rows of a GROUP BY come back in any order, and so do rows *)
(*    that tie under an ORDER BY: such a call is a set of possible values. *)
(*  - Salaries are integers, so midpoints, their sums and the means are    *)
(*    exact in floating point and round() sees the exact tie.              *)
(***************************************************************************)
EXTENDS Integers, Sequences, FiniteSets, TLC

VARIABLES jobs, result
vars == <<jobs, result>>

-----------------------------------------------------------------------------
(* Bounds *)
MaxJobs == 3
MaxBatch == 1
MaxLimit == 3
MaxStatJobs == 4
BulkBatch == 125
MaxImpactJobs == 3
MaxConcJobs == 3
MaxFilterJobs == 2
RemoteBatch == 31
HybridBatch == 49

-----------------------------------------------------------------------------
(* Values *)
NULL == <<"NULL">>
NullNum == 0 - 1

Ok(v) == [raised |-> FALSE, value |-> v]
Raise(e) == [raised |-> TRUE, error |-> e]

UpperCase == <<"A","B","C","D","E","F","G","H","I","J","K","L","M",
               "N","O","P","Q","R","S","T","U","V","W","X","Y","Z">>
LowerCase == <<"a","b","c","d","e","f","g","h","i","j","k","l","m",
               "n","o","p","q","r","s","t","u","v","w","x","y","z">>

LowerKeepsCase(c) == c

\* lower(c) as applied by ILIKE to both operands
LowerOf == [u \in {UpperCase[i] : i \in 1..26} |->
              LowerCase[CHOOSE i \in 1..26 : UpperCase[i] = u]]

Lower(c) == IF c \in DOMAIN LowerOf THEN LowerOf[c] ELSE c

\* s LIKE p on already case-folded comparison: % any run, _ any one character
RECURSIVE Like(_, _)
Like(s, p) ==
  IF p = <<>> THEN s = <<>>
  ELSE IF Head(p) = "%"
       THEN Like(s, Tail(p)) \/ (s # <<>> /\ Like(Tail(s), p))
       ELSE /\ s # <<>>
            /\ (Head(p) = "_" \/ Lower(Head(s)) = Lower(Head(p)))
            /\ Like(Tail(s), Tail(p))

\* column.ilike(f"%{text}%"): NULL ILIKE anything is NULL, which a filter drops
ilike(column, text) ==
  /\ column # NULL
  /\ Like(column, <<"%">> \o text \o <<"%">>)

\* ~column.ilike(...): NOT NULL is NULL, which a filter drops as well
not_ilike(column, text) ==
  /\ column # NULL
  /\ ~Like(column, <<"%">> \o text \o <<"%">>)

\* Python truthiness of an optional string argument: None and "" are falsy
Truthy(text) == text # NULL /\ text # <<>>

\* Python round(): the nearest integer to num/den, a tie going to the even one
RoundHalfEven(num, den) ==
  LET q == num \div den
      r == num % den
  IN  IF 2 * r < den THEN q
      ELSE IF 2 * r > den THEN q + 1
      ELSE IF q % 2 = 0 THEN q ELSE q + 1

\* sum(s), added up by halves to keep the evaluation shallow
RECURSIVE SumRange(_, _, _)
SumRange(s, lo, hi) ==
  IF lo > hi THEN 0
  ELSE IF lo = hi THEN s[lo]
  ELSE LET mid == (lo + hi) \div 2
       IN  SumRange(s, lo, mid) + SumRange(s, mid + 1, hi)

Sum(s) == SumRange(s, 1, Len(s))

RECURSIVE Insert(_, _)
Insert(x, s) ==
  IF s = <<>> THEN <<x>>
  ELSE IF x < Head(s) THEN <<x>> \o s
  ELSE <<Head(s)>> \o Insert(x, Tail(s))

\* sorted(salaries): ascending
RECURSIVE sorted(_)
sorted(s) == IF s = <<>> THEN <<>> ELSE Insert(Head(s), sorted(Tail(s)))

Min(s) == CHOOSE x \in {s[i] : i \in 1..Len(s)} : \A j \in 1..Len(s) : x <= s[j]
Max_of_last(s) == s[Len(s)]

Max(s) == CHOOSE x \in {s[i] : i \in 1..Len(s)} : \A j \in 1..Len(s) : x >= s[j]

Map(f(_), s) == [i \in 1..Len(s) |-> f(s[i])]

-----------------------------------------------------------------------------
(* Text values used by the records and the requests *)
BostonMA == <<"B","o","s","t","o","n",","," ","M","A">>
bostonma == <<"b","o","s","t","o","n",","," ","m","a">>
Remote == <<"R","e","m","o","t","e">>
Hybrid == <<"H","y","b","r","i","d">>
OnSite == <<"O","n","-","s","i","t","e">>
remoteLower == <<"r","e","m","o","t","e">>
Acme == <<"A","c","m","e">>
Beta == <<"B","e","t","a">>
Python == <<"P","y","t","h","o","n">>
SQL == <<"S","Q","L">>
Java == <<"J","a","v","a">>
python == <<"p","y","t","h","o","n">>
PythonSQL == <<"P","y","t","h","o","n",","," ","S","Q","L">>
SQLJava == <<"S","Q","L",","," ","J","a","v","a">>
\* "Python,, Python ,java": a repeated skill, an empty token, stray blanks
PythonTwice == <<"P","y","t","h","o","n",",",","," ","P","y","t","h","o","n"," ",",","j","a","v","a">>
ma == <<"m","a">>
Nowhere == <<"x","y","z">>

\* Rows an ingestion producer can commit (every nullable column of
\* src/models/job.py is exercised).
JobPool == <<
  [company |-> Acme, location |-> BostonMA, salary_min |-> 80000, salary_max |-> 90000,
   skills |-> PythonSQL, remote |-> Remote],
  [company |-> Acme, location |-> bostonma, salary_min |-> 100000, salary_max |-> 110000,
   skills |-> Python, remote |-> Hybrid],
  [company |-> Beta, location |-> Remote, salary_min |-> 60000, salary_max |-> 70000,
   skills |-> SQLJava, remote |-> OnSite],
  [company |-> Beta, location |-> BostonMA, salary_min |-> NullNum, salary_max |-> 90000,
   skills |-> Python, remote |-> Remote],
  [company |-> Acme, location |-> Remote, salary_min |-> 80000, salary_max |-> NullNum,
   skills |-> NULL, remote |-> NULL],
  [company |-> Beta, location |-> bostonma, salary_min |-> 70000, salary_max |-> 75001,
   skills |-> NULL, remote |-> NULL],
  [company |-> Acme, location |-> Remote, salary_min |-> 0, salary_max |-> 0,
   skills |-> PythonTwice, remote |-> remoteLower],
  [company |-> Beta, location |-> Remote, salary_min |-> NullNum, salary_max |-> NullNum,
   skills |-> Java, remote |-> Hybrid]
>>

\* Rows with small salaries: midpoints 10, 20, 30, 40, 10.5 and 11.5
StatPool == <<
  [company |-> Acme, location |-> BostonMA, salary_min |-> 10, salary_max |-> 10,
   skills |-> Python, remote |-> Remote],
  [company |-> Acme, location |-> BostonMA, salary_min |-> 15, salary_max |-> 25,
   skills |-> Python, remote |-> Remote],
  [company |-> Acme, location |-> Remote, salary_min |-> 30, salary_max |-> 30,
   skills |-> Java, remote |-> Remote],
  [company |-> Acme, location |-> Remote, salary_min |-> 35, salary_max |-> 45,
   skills |-> Python, remote |-> Remote],
  [company |-> Acme, location |-> BostonMA, salary_min |-> 10, salary_max |-> 11,
   skills |-> Java, remote |-> Remote],
  [company |-> Acme, location |-> Remote, salary_min |-> 11, salary_max |-> 12,
   skills |-> NULL, remote |-> Remote]
>>

\* Rows of a large store: one per remote value, and one without salary
Contract == <<"C","o","n","t","r","a","c","t">>
BulkPool == <<
  [company |-> Acme, location |-> BostonMA, salary_min |-> 80000, salary_max |-> 90000,
   skills |-> Python, remote |-> Remote],
  [company |-> Acme, location |-> BostonMA, salary_min |-> 80000, salary_max |-> 90000,
   skills |-> Python, remote |-> Hybrid],
  [company |-> Acme, location |-> BostonMA, salary_min |-> 80000, salary_max |-> 90000,
   skills |-> Python, remote |-> OnSite],
  [company |-> Acme, location |-> BostonMA, salary_min |-> 80000, salary_max |-> 90000,
   skills |-> Python, remote |-> Contract],
  [company |-> Acme, location |-> BostonMA, salary_min |-> NullNum, salary_max |-> NullNum,
   skills |-> Python, remote |-> Remote]
>>

\* Rows for the skill comparison: an odd with-skill salary, half-integer
\* midpoints without the skill, skills NULL and skills empty
ImpactPool == <<
  [company |-> Acme, location |-> BostonMA, salary_min |-> 1, salary_max |-> 1,
   skills |-> Python, remote |-> Remote],
  [company |-> Acme, location |-> BostonMA, salary_min |-> 0, salary_max |-> 1,
   skills |-> Java, remote |-> Remote],
  [company |-> Acme, location |-> BostonMA, salary_min |-> 2, salary_max |-> 3,
   skills |-> SQLJava, remote |-> Remote],
  [company |-> Acme, location |-> BostonMA, salary_min |-> 70000, salary_max |-> 75001,
   skills |-> NULL, remote |-> Remote],
  [company |-> Acme, location |-> BostonMA, salary_min |-> 60000, salary_max |-> 70000,
   skills |-> <<>>, remote |-> Remote],
  [company |-> Acme, location |-> BostonMA, salary_min |-> 80000, salary_max |-> 90000,
   skills |-> PythonSQL, remote |-> Remote],
  [company |-> Acme, location |-> BostonMA, salary_min |-> NullNum, salary_max |-> 90000,
   skills |-> Java, remote |-> Remote]
>>

\* Rows committed while calls are under way
ConcPool == <<
  [company |-> Acme, location |-> BostonMA, salary_min |-> 80000, salary_max |-> 90000,
   skills |-> Python, remote |-> Remote],
  [company |-> Beta, location |-> Remote, salary_min |-> 60000, salary_max |-> 70000,
   skills |-> SQL, remote |-> Hybrid]
>>

\* Rows and caller-supplied filters with the characters % and _
FilterPool == <<
  [company |-> Acme, location |-> BostonMA, salary_min |-> 80000, salary_max |-> 90000,
   skills |-> Python, remote |-> Remote],
  [company |-> Acme, location |-> <<"a", "_", "b">>, salary_min |-> 60000,
   salary_max |-> 70000, skills |-> <<"C", "%">>, remote |-> Remote],
  [company |-> Acme, location |-> <<"5", "0", "%">>, salary_min |-> 100000,
   salary_max |-> 110000, skills |-> NULL, remote |-> Remote]
>>

FilterArgs == {NULL, <<>>, <<"%">>, <<"_">>, <<"a", "_", "b">>, ma}

LocationArgs == {NULL, <<>>, BostonMA, ma, Nowhere}
SkillArgs == {NULL, python, Java}
ComparisonLocations == {BostonMA, Remote, Nowhere}
\* locations_list arguments: empty, a location without records, every order
\* of two locations, a repeated location
ComparisonLists ==
  {<<>>, <<Nowhere>>, <<Nowhere, BostonMA>>, <<BostonMA, Remote>>, <<Remote, BostonMA>>,
   <<BostonMA, BostonMA>>, <<Remote, Nowhere, BostonMA>>}

-----------------------------------------------------------------------------
(* Job record store *)

has_salary_min(job) == job.salary_min # NullNum

\* Job.salary_min.isnot(None), Job.salary_max.isnot(None)
has_salary(job) == job.salary_min # NullNum /\ job.salary_max # NullNum

\* (job.salary_min + job.salary_max) / 2, stored doubled
midpoint(job) == job.salary_min + job.salary_max

count_with_salary(store) == Len(SelectSeq(store, has_salary))

\* self.db.query(Job).count()
get_total_jobs_count(store) == Len(store)

-----------------------------------------------------------------------------
(* get_salary_insights *)

no_jobs_skipped(rows) == FALSE

\* if not jobs
no_jobs(rows) == rows = <<>>

median_index_lower(n) == (n - 1) \div 2

\* len(salaries)//2, a 0-based index
median_index(n) == n \div 2

\* round(sum(salaries) / len(salaries)) over doubled salaries
rounded_mean(salaries) == RoundHalfEven(Sum(salaries), 2 * Len(salaries))

empty_insights ==
  [count |-> 0, avg_salary |-> 0, min_salary |-> 0, max_salary |-> 0, median_salary |-> 0]

salary_query(store, location, skill) ==
  LET q0 == SelectSeq(store, has_salary)
      q1 == IF Truthy(location)
            THEN SelectSeq(q0, LAMBDA job : ilike(job.location, location))
            ELSE q0
  IN  IF Truthy(skill)
      THEN SelectSeq(q1, LAMBDA job : ilike(job.skills, skill))
      ELSE q1

get_salary_insights(store, location, skill) ==
  LET rows == salary_query(store, location, skill)
      salaries == Map(midpoint, rows)
  IN  IF no_jobs(rows) THEN Ok(empty_insights)
      ELSE IF Len(salaries) = 0 THEN Raise("ZeroDivisionError")
      ELSE Ok([count |-> Len(rows),
               avg_salary |-> rounded_mean(salaries),
               min_salary |-> Min(salaries),
               max_salary |-> Max(salaries),
               median_salary |-> sorted(salaries)[median_index(Len(salaries)) + 1]])

-----------------------------------------------------------------------------
(* Grouped queries *)

FieldValues(rows, field) == {rows[i][field] : i \in 1..Len(rows)}

\* every order in which the rows of a set can come back from a query that
\* does not order them
Orders(S) ==
  {p \in [1..Cardinality(S) -> S] : \A i, j \in 1..Cardinality(S) : i # j => p[i] # p[j]}

\* the rows of one GROUP BY group
group_rows(rows, field, key) == SelectSeq(rows, LAMBDA job : job[field] = key)

\* func.avg((salary_min + salary_max) / 2) of a group, as the exact fraction
\* num / den
group_avg(rows) == [num |-> Sum(Map(midpoint, rows)), den |-> 2 * Len(rows)]

\* a >= b for two fractions with positive denominators
AvgGE(a, b) == a.num * b.den >= b.num * a.den

\* round(avg_sal) if avg_sal else 0
round_avg(avg) == IF avg.num # 0 THEN RoundHalfEven(avg.num, avg.den) ELSE 0

\* The quotients part / total, part <= total < 800, whose exact percentage lies
\* half-way between two tenths while the double (part / total) * 100 lies
\* above it, or below it, and round() then leaves the even tenth
ProductAboveTie ==
  {<<49, 80>>, <<98, 160>>, <<147, 240>>, <<196, 320>>, <<109, 400>>,
   <<245, 400>>, <<249, 400>>, <<294, 480>>, <<343, 560>>, <<392, 640>>,
   <<441, 720>>}

ProductBelowTie ==
  {<<23, 80>>, <<51, 80>>, <<46, 160>>, <<102, 160>>, <<69, 240>>,
   <<153, 240>>, <<92, 320>>, <<204, 320>>, <<115, 400>>, <<203, 400>>,
   <<207, 400>>, <<251, 400>>, <<255, 400>>, <<138, 480>>, <<306, 480>>,
   <<161, 560>>, <<357, 560>>, <<184, 640>>, <<408, 640>>, <<207, 720>>,
   <<459, 720>>}

\* round((part / total) * 100, 1), in tenths, of the doubles
percent(part, total) ==
  IF <<part, total>> \in ProductAboveTie THEN (1000 * part) \div total + 1
  ELSE IF <<part, total>> \in ProductBelowTie THEN (1000 * part) \div total
  ELSE RoundHalfEven(1000 * part, total)

\* sorted(results, key=lambda x: x[field], reverse=True): stable, so rows with
\* equal keys keep their order
RECURSIVE InsertDesc(_, _, _)
InsertDesc(x, s, field) ==
  IF s = <<>> THEN <<x>>
  ELSE IF Head(s)[field] > x[field] THEN <<Head(s)>> \o InsertDesc(x, Tail(s), field)
  ELSE <<x>> \o s

RECURSIVE sorted_desc(_, _)
sorted_desc(s, field) ==
  IF s = <<>> THEN <<>> ELSE InsertDesc(Head(s), sorted_desc(Tail(s), field), field)

Take(s, n) == SubSeq(s, 1, IF n < Len(s) THEN n ELSE Len(s))

-----------------------------------------------------------------------------
(* get_salary_by_location *)

avg_order_any(rows, field, order) == TRUE

\* .order_by(func.avg(...).desc()): groups with equal averages in any order
avg_order_desc(rows, field, order) ==
  \A i \in 1..(Len(order) - 1) :
    AvgGE(group_avg(group_rows(rows, field, order[i])),
          group_avg(group_rows(rows, field, order[i + 1])))

\* the set of lists the call can return
get_salary_by_location(store) ==
  LET rows == SelectSeq(store, has_salary)
      keys == FieldValues(rows, "location")
  IN  {Ok([i \in 1..Len(order) |->
             LET g == group_rows(rows, "location", order[i])
             IN  [location |-> order[i],
                  job_count |-> Len(g),
                  avg_salary |-> round_avg(group_avg(g))]]) :
         order \in {o \in Orders(keys) : avg_order_desc(rows, "location", o)}}

-----------------------------------------------------------------------------
(* get_location_insights *)

\* func.sum(case((Job.remote == value, 1), else_=0)); NULL = value is not true
count_remote(rows, value) == Len(SelectSeq(rows, LAMBDA job : job.remote = value))

location_row(rows, location) ==
  LET g == group_rows(rows, "location", location)
      total == Len(g)
      remote == count_remote(g, Remote)
      hybrid == count_remote(g, Hybrid)
      remote_percentage == IF total > 0 THEN percent(remote, total) ELSE 0
      hybrid_percentage == IF total > 0 THEN percent(hybrid, total) ELSE 0
  IN  [location |-> location,
       total_jobs |-> total,
       avg_salary |-> round_avg(group_avg(g)),
       remote_jobs |-> remote,
       hybrid_jobs |-> hybrid,
       remote_percentage |-> remote_percentage,
       hybrid_percentage |-> hybrid_percentage,
       onsite_percentage |-> 1000 - remote_percentage - hybrid_percentage]

get_location_insights(store) ==
  LET rows == SelectSeq(store, has_salary)
      keys == FieldValues(rows, "location")
  IN  {Ok(sorted_desc([i \in 1..Len(order) |-> location_row(rows, order[i])],
                      "total_jobs")) :
         order \in Orders(keys)}

-----------------------------------------------------------------------------
(* get_remote_work_trends *)

\* query.all() and the loop over it, with the total_jobs read before it
remote_trends_rows(store, total_jobs) ==
  LET rows == SelectSeq(store, has_salary)
      keys == FieldValues(rows, "remote")
  IN  {Ok(sorted_desc([i \in 1..Len(order) |->
                         LET g == group_rows(rows, "remote", order[i])
                         IN  [type |-> order[i],
                              job_count |-> Len(g),
                              percentage |-> IF total_jobs > 0
                                             THEN percent(Len(g), total_jobs) ELSE 0,
                              avg_salary |-> round_avg(group_avg(g))]],
                      "job_count")) :
         order \in Orders(keys)}

get_remote_work_trends(store) ==
  remote_trends_rows(store, get_total_jobs_count(store))

-----------------------------------------------------------------------------
(* get_top_skills *)

Whitespace == {" ", "\t", "\n", "\r"}

RECURSIVE lstrip(_)
lstrip(s) == IF s # <<>> /\ Head(s) \in Whitespace THEN lstrip(Tail(s)) ELSE s

RECURSIVE rstrip(_)
rstrip(s) ==
  IF s # <<>> /\ s[Len(s)] \in Whitespace THEN rstrip(SubSeq(s, 1, Len(s) - 1)) ELSE s

strip_left_only(s) == lstrip(s)

\* str.strip()
strip(s) == rstrip(lstrip(s))

\* str.split(','): one more token than there are commas
RECURSIVE split(_)
split(s) ==
  IF \E i \in 1..Len(s) : s[i] = ","
  THEN LET i == CHOOSE k \in 1..Len(s) : s[k] = "," /\ \A m \in 1..(k - 1) : s[m] # ","
       IN  <<SubSeq(s, 1, i - 1)>> \o split(SubSeq(s, i + 1, Len(s)))
  ELSE <<s>>

\* [skill.strip() for skill in job.skills.split(',')] without the empty ones
job_skills(job) == SelectSeq(Map(strip, split(job.skills)), LAMBDA skill : skill # <<>>)

\* the (skill, salary) pairs appended while scanning the fetched rows:
\* all_skills is the first components, skill_salaries[skill] the second
\* components of the pairs of that skill
RECURSIVE occurrences(_)
occurrences(rows) ==
  IF rows = <<>> THEN <<>>
  ELSE LET job == Head(rows)
           mine == IF Truthy(job.skills)
                   THEN [i \in 1..Len(job_skills(job)) |->
                           [skill |-> job_skills(job)[i], salary |-> midpoint(job)]]
                   ELSE <<>>
       IN  mine \o occurrences(Tail(rows))

\* the keys of Counter(all_skills) in insertion order, each with its count
RECURSIVE counter(_)
counter(occ) ==
  IF occ = <<>> THEN <<>>
  ELSE LET skill == Head(occ).skill
       IN  <<[skill |-> skill,
              count |-> Len(SelectSeq(occ, LAMBDA o : o.skill = skill))]>>
           \o counter(SelectSeq(Tail(occ), LAMBDA o : o.skill # skill))

most_common_last_seen(occ, limit) ==
  LET items == counter(occ)
      reversed == [i \in 1..Len(items) |-> items[Len(items) + 1 - i]]
  IN  IF limit <= 0 THEN <<>> ELSE Take(sorted_desc(reversed, "count"), limit)

\* Counter.most_common(limit): heapq.nlargest(limit, items, key=count), which
\* is sorted(items, key=count, reverse=True)[:limit]
most_common(occ, limit) ==
  IF limit <= 0 THEN <<>> ELSE Take(sorted_desc(counter(occ), "count"), limit)

skills_population_any(store) == SelectSeq(store, has_salary)

\* len(jobs): the rows fetched with salary present and skills not NULL
skills_population(store) ==
  SelectSeq(store, LAMBDA job : job.skills # NULL /\ has_salary(job))

get_top_skills(store, limit) ==
  LET rows == skills_population(store)
      occ == occurrences(rows)
      top == most_common(occ, limit)
  IN  Ok([i \in 1..Len(top) |->
            LET sample == Map(LAMBDA o : o.salary,
                              SelectSeq(occ, LAMBDA o : o.skill = top[i].skill))
            IN  [skill |-> top[i].skill,
                 job_count |-> top[i].count,
                 avg_salary |-> rounded_mean(sample),
                 percentage |-> percent(top[i].count, Len(rows))]])

-----------------------------------------------------------------------------
(* Formatting *)

Digits == <<"0","1","2","3","4","5","6","7","8","9">>

RECURSIVE format_int(_)
format_int(n) == IF n < 10 THEN <<Digits[n + 1]>>
                 ELSE format_int(n \div 10) \o <<Digits[(n % 10) + 1]>>

\* f"{n:,}" for an integer n >= 0
RECURSIVE format_thousands(_)
format_thousands(n) ==
  IF n < 1000 THEN format_int(n)
  ELSE format_thousands(n \div 1000)
       \o <<",", Digits[((n % 1000) \div 100) + 1], Digits[((n % 100) \div 10) + 1],
            Digits[(n % 10) + 1]>>

\* f"${lo:,.0f} - ${hi:,.0f}" and f"${round(lo):,} - ${round(hi):,}" for doubled
\* lo, hi: both round a tie to the even integer
format_range(lo, hi) ==
  <<"$">> \o format_thousands(RoundHalfEven(lo, 2)) \o <<" ", "-", " ", "$">>
          \o format_thousands(RoundHalfEven(hi, 2))

NA == <<"N","/","A">>

-----------------------------------------------------------------------------
(* get_company_insights *)

\* .order_by(func.count(Job.id).desc()): groups with equal counts in any order
count_order_desc(rows, field, order) ==
  \A i \in 1..(Len(order) - 1) :
    Len(group_rows(rows, field, order[i])) >= Len(group_rows(rows, field, order[i + 1]))

\* if min_sal and max_sal: None and 0.0 are both falsy
both_truthy(min_sal, max_sal) == min_sal # 0 /\ max_sal # 0

company_row(rows, company) ==
  LET g == group_rows(rows, "company", company)
      min_sal == Min(Map(midpoint, g))
      max_sal == Max(Map(midpoint, g))
  IN  [company |-> company,
       job_count |-> Len(g),
       avg_salary |-> round_avg(group_avg(g)),
       salary_range |-> IF both_truthy(min_sal, max_sal)
                        THEN format_range(min_sal, max_sal) ELSE NA]

get_company_insights(store, limit) ==
  LET rows == SelectSeq(store, has_salary)
      keys == FieldValues(rows, "company")
  IN  {Ok([i \in 1..Len(Take(order, limit)) |-> company_row(rows, order[i])]) :
         order \in {o \in Orders(keys) : count_order_desc(rows, "company", o)}}

-----------------------------------------------------------------------------
(* get_salary_comparison *)

\* the loop over locations_list, stopping at the first call that raises
RECURSIVE comparison_rows(_, _)
comparison_rows(store, locations_list) ==
  IF locations_list = <<>> THEN Ok(<<>>)
  ELSE LET location == Head(locations_list)
           insights == get_salary_insights(store, location, NULL)
           rest == comparison_rows(store, Tail(locations_list))
       IN  IF insights.raised THEN insights
           ELSE IF rest.raised THEN rest
           ELSE IF insights.value.count > 0
           THEN Ok(<<[location |-> location,
                      job_count |-> insights.value.count,
                      avg_salary |-> insights.value.avg_salary,
                      salary_range |-> format_range(insights.value.min_salary,
                                                    insights.value.max_salary)]>>
                   \o rest.value)
           ELSE rest

get_salary_comparison_unsorted(store, locations_list) ==
  comparison_rows(store, locations_list)

get_salary_comparison(store, locations_list) ==
  LET rows == comparison_rows(store, locations_list)
  IN  IF rows.raised THEN rows ELSE Ok(sorted_desc(rows.value, "avg_salary"))

-----------------------------------------------------------------------------
(* get_skill_salary_impact *)

salary_difference_of_rounded(avg_salary, num, den) ==
  avg_salary - RoundHalfEven(num, den)

\* round(with_skill['avg_salary'] - without_avg), without_avg being num / den
salary_difference(avg_salary, num, den) ==
  RoundHalfEven(avg_salary * den - num, den)

get_skill_salary_impact(store, base_skill) ==
  LET with_skill == get_salary_insights(store, NULL, base_skill)
      without_jobs == SelectSeq(store, LAMBDA job :
                                  has_salary(job) /\ not_ilike(job.skills, base_skill))
      \* without_avg is num / den, 0 when there are no such jobs
      num == Sum(Map(midpoint, without_jobs))
      den == 2 * Len(without_jobs)
      positive == without_jobs # <<>> /\ num > 0
      \* with_skill['avg_salary'] - without_avg is diff / den
      diff == IF positive THEN with_skill.value.avg_salary * den - num ELSE 0
  IN  IF with_skill.raised THEN with_skill
      ELSE Ok([skill |-> base_skill,
               average_salary |-> with_skill.value.avg_salary,
               market_average |-> IF without_jobs # <<>>
                                  THEN RoundHalfEven(num, den) ELSE 0,
               salary_difference |-> IF positive
                                     THEN salary_difference(with_skill.value.avg_salary,
                                                            num, den)
                                     ELSE 0,
               percentage_increase |-> IF positive
                                       THEN RoundHalfEven(1000 * diff, num) ELSE 0])

-----------------------------------------------------------------------------
(* generate_market_summary *)

remote_percentage_of_first(remote_trends) ==
  IF remote_trends = <<>> THEN 0 ELSE Head(remote_trends).percentage

\* next((item['percentage'] for item in remote_trends if item['type'] == 'Remote'), 0)
RECURSIVE remote_percentage_of(_)
remote_percentage_of(remote_trends) ==
  IF remote_trends = <<>> THEN 0
  ELSE IF Head(remote_trends).type = Remote THEN Head(remote_trends).percentage
  ELSE remote_percentage_of(Tail(remote_trends))

\* the dictionary built from the five values read
market_summary(total_jobs, overall_salary, top_skills, by_location, remote_trends) ==
  IF overall_salary.raised THEN overall_salary
  ELSE IF top_skills.raised THEN top_skills
  ELSE Ok([total_jobs |-> total_jobs,
           avg_salary |-> overall_salary.value.avg_salary,
           salary_range |-> format_range(overall_salary.value.min_salary,
                                         overall_salary.value.max_salary),
           top_skills |-> Map(LAMBDA skill : skill.skill, top_skills.value),
           highest_paying_location |->
             LET top_locations == Take(by_location.value, 5)
             IN  IF top_locations # <<>> THEN top_locations[1].location ELSE NA,
           remote_percentage |-> remote_percentage_of(remote_trends.value)])

generate_market_summary(store) ==
  {market_summary(get_total_jobs_count(store),
                  get_salary_insights(store, NULL, NULL),
                  get_top_skills(store, 5), by_location, remote_trends) :
     by_location \in get_salary_by_location(store),
     remote_trends \in get_remote_work_trends(store)}

-----------------------------------------------------------------------------
(* Actions *)

NoResult == [op |-> "none"]

\* generate_and_save_jobs: db.add each Job, one db.commit for the batch;
\* the id column is assigned in insertion order.  The generator is a process
\* of its own with its own session.
CommitJobs(pool, capacity) ==
  /\ \E num_jobs \in 1..MaxBatch :
       /\ Len(jobs) + num_jobs <= capacity
       /\ \E batch \in [1..num_jobs -> 1..Len(pool)] :
            jobs' = jobs \o [i \in 1..num_jobs |->
                               [id |-> Len(jobs) + i] @@ pool[batch[i]]]
  /\ UNCHANGED result

\* a batch committed while no call of the analytics layer is under way
SaveJobs(pool, capacity) ==
  /\ result = NoResult
  /\ CommitJobs(pool, capacity)

SalaryInsights ==
  /\ result = NoResult
  /\ \E location \in LocationArgs, skill \in SkillArgs :
       result' = [op |-> "get_salary_insights", location |-> location, skill |-> skill,
                  ret |-> get_salary_insights(jobs, location, skill)]
  /\ UNCHANGED jobs

SalaryByLocation ==
  /\ result = NoResult
  /\ \E ret \in get_salary_by_location(jobs) :
       result' = [op |-> "get_salary_by_location", ret |-> ret]
  /\ UNCHANGED jobs

LocationInsights ==
  /\ result = NoResult
  /\ \E ret \in get_location_insights(jobs) :
       result' = [op |-> "get_location_insights", ret |-> ret]
  /\ UNCHANGED jobs

RemoteWorkTrends ==
  /\ result = NoResult
  /\ \E ret \in get_remote_work_trends(jobs) :
       result' = [op |-> "get_remote_work_trends", ret |-> ret]
  /\ UNCHANGED jobs

TopSkillsDroppingUnskilled ==
  /\ result = NoResult
  /\ \E limit \in 0..MaxLimit :
       result' = [op |-> "get_top_skills", limit |-> limit,
                  ret |-> get_top_skills(jobs, limit)]
  /\ jobs' = SelectSeq(jobs, LAMBDA job : Truthy(job.skills))

TopSkills ==
  /\ result = NoResult
  /\ \E limit \in 0..MaxLimit :
       result' = [op |-> "get_top_skills", limit |-> limit,
                  ret |-> get_top_skills(jobs, limit)]
  /\ UNCHANGED jobs

CompanyInsights ==
  /\ result = NoResult
  /\ \E limit \in 0..MaxLimit :
       \E ret \in get_company_insights(jobs, limit) :
         result' = [op |-> "get_company_insights", limit |-> limit, ret |-> ret]
  /\ UNCHANGED jobs

SalaryComparison ==
  /\ result = NoResult
  /\ \E locations_list \in ComparisonLists :
       result' = [op |-> "get_salary_comparison", locations_list |-> locations_list,
                  ret |-> get_salary_comparison(jobs, locations_list)]
  /\ UNCHANGED jobs

SkillSalaryImpact ==
  /\ result = NoResult
  /\ \E base_skill \in SkillArgs \ {NULL} :
       result' = [op |-> "get_skill_salary_impact", base_skill |-> base_skill,
                  ret |-> get_skill_salary_impact(jobs, base_skill)]
  /\ UNCHANGED jobs

MarketSummary ==
  /\ result = NoResult
  /\ \E ret \in generate_market_summary(jobs) :
       result' = [op |-> "generate_market_summary", ret |-> ret]
  /\ UNCHANGED jobs

\* the handler hands the value to its caller; nothing is kept across calls
Respond ==
  /\ result # NoResult
  /\ result' = NoResult
  /\ UNCHANGED jobs

Init == jobs = <<>> /\ result = NoResult

Next ==
  \/ SaveJobs(JobPool, MaxJobs)
  \/ SalaryInsights
  \/ SalaryByLocation
  \/ LocationInsights
  \/ RemoteWorkTrends
  \/ TopSkills
  \/ CompanyInsights
  \/ SalaryComparison
  \/ SkillSalaryImpact
  \/ MarketSummary
  \/ Respond

Spec == Init /\ [][Next]_vars

\* Salary statistics over stores of small-salary rows
NextStats ==
  \/ SaveJobs(StatPool, MaxStatJobs)
  \/ SalaryInsights
  \/ Respond

SpecStats == Init /\ [][NextStats]_vars

\* The skill comparison over stores of ImpactPool rows
NextImpact ==
  \/ SaveJobs(ImpactPool, MaxImpactJobs)
  \/ SkillSalaryImpact
  \/ Respond

SpecImpact == Init /\ [][NextImpact]_vars

\* Filters with % and _ over stores of FilterPool rows
FilteredInsights ==
  /\ result = NoResult
  /\ \E location \in FilterArgs, skill \in FilterArgs :
       result' = [op |-> "get_salary_insights", location |-> location, skill |-> skill,
                  ret |-> get_salary_insights(jobs, location, skill)]
  /\ UNCHANGED jobs

NextFilter ==
  \/ SaveJobs(FilterPool, MaxFilterJobs)
  \/ FilteredInsights
  \/ Respond

SpecFilter == Init /\ [][NextFilter]_vars

\* Calls taken one query at a time, the generator committing at any moment.
\* The session is never committed or closed and runs each SELECT against the
\* rows committed when that SELECT executes.  A call under way is the record
\* [op |-> "running", call, pc, from, ...]: pc names the next query, from is
\* the number of rows in the store at the call's first query; a call that
\* returned carries from and upto, the number of rows at its last query.
Running(call, pc) == result.op = "running" /\ result.call = call /\ result.pc = pc

\* get_remote_work_trends: total_jobs = self.db.query(Job).count()
TrendsTotal ==
  /\ result = NoResult
  /\ result' = [op |-> "running", call |-> "get_remote_work_trends", pc |-> "query",
                from |-> Len(jobs), total_jobs |-> get_total_jobs_count(jobs)]
  /\ UNCHANGED jobs

\* get_remote_work_trends: query.all(), the loop and the sort
TrendsQuery ==
  /\ Running("get_remote_work_trends", "query")
  /\ \E ret \in remote_trends_rows(jobs, result.total_jobs) :
       result' = [op |-> "get_remote_work_trends", ret |-> ret,
                  from |-> result.from, upto |-> Len(jobs)]
  /\ UNCHANGED jobs

\* generate_market_summary: total_jobs = self.get_total_jobs_count()
SummaryTotal ==
  /\ result = NoResult
  /\ result' = [op |-> "running", call |-> "generate_market_summary", pc |-> "salary",
                from |-> Len(jobs), total_jobs |-> get_total_jobs_count(jobs)]
  /\ UNCHANGED jobs

\* generate_market_summary: overall_salary = self.get_salary_insights()
SummarySalary ==
  /\ Running("generate_market_summary", "salary")
  /\ LET overall_salary == get_salary_insights(jobs, NULL, NULL)
     IN  result' = IF overall_salary.raised
                   THEN [op |-> "generate_market_summary", ret |-> overall_salary,
                         from |-> result.from, upto |-> Len(jobs)]
                   ELSE [op |-> "running", call |-> "generate_market_summary",
                         pc |-> "skills", from |-> result.from,
                         total_jobs |-> result.total_jobs,
                         overall_salary |-> overall_salary]
  /\ UNCHANGED jobs

\* generate_market_summary: top_skills = self.get_top_skills(5)
SummarySkills ==
  /\ Running("generate_market_summary", "skills")
  /\ LET top_skills == get_top_skills(jobs, 5)
     IN  result' = IF top_skills.raised
                   THEN [op |-> "generate_market_summary", ret |-> top_skills,
                         from |-> result.from, upto |-> Len(jobs)]
                   ELSE [op |-> "running", call |-> "generate_market_summary",
                         pc |-> "locations", from |-> result.from,
                         total_jobs |-> result.total_jobs,
                         overall_salary |-> result.overall_salary,
                         top_skills |-> top_skills]
  /\ UNCHANGED jobs

\* generate_market_summary: top_locations = self.get_salary_by_location()[:5]
SummaryLocations ==
  /\ Running("generate_market_summary", "locations")
  /\ \E by_location \in get_salary_by_location(jobs) :
       result' = [op |-> "running", call |-> "generate_market_summary",
                  pc |-> "trends_total", from |-> result.from,
                  total_jobs |-> result.total_jobs,
                  overall_salary |-> result.overall_salary,
                  top_skills |-> result.top_skills,
                  by_location |-> by_location]
  /\ UNCHANGED jobs

\* generate_market_summary: the count query of self.get_remote_work_trends()
SummaryTrendsTotal ==
  /\ Running("generate_market_summary", "trends_total")
  /\ result' = [op |-> "running", call |-> "generate_market_summary",
                pc |-> "trends_query", from |-> result.from,
                total_jobs |-> result.total_jobs,
                overall_salary |-> result.overall_salary,
                top_skills |-> result.top_skills,
                by_location |-> result.by_location,
                trends_total |-> get_total_jobs_count(jobs)]
  /\ UNCHANGED jobs

\* generate_market_summary: the grouped query of self.get_remote_work_trends()
\* and the dictionary returned
SummaryTrendsQuery ==
  /\ Running("generate_market_summary", "trends_query")
  /\ \E remote_trends \in remote_trends_rows(jobs, result.trends_total) :
       result' = [op |-> "generate_market_summary",
                  ret |-> market_summary(result.total_jobs, result.overall_salary,
                                         result.top_skills, result.by_location,
                                         remote_trends),
                  from |-> result.from, upto |-> Len(jobs)]
  /\ UNCHANGED jobs

NextConc ==
  \/ CommitJobs(ConcPool, MaxConcJobs)
  \/ TrendsTotal
  \/ TrendsQuery
  \/ SummaryTotal
  \/ SummarySalary
  \/ SummarySkills
  \/ SummaryLocations
  \/ SummaryTrendsTotal
  \/ SummaryTrendsQuery
  \/ Respond

SpecConc == Init /\ [][NextConc]_vars

\* Remote-work shares over large stores: for each row of BulkPool none, one
\* or BulkBatch copies, in pool order
Copies(row, n) == [i \in 1..n |-> row]

BulkCounts == {0, 1, BulkBatch}

BulkStore(counts) ==
  LET rows == Copies(BulkPool[1], counts[1]) \o Copies(BulkPool[2], counts[2])
              \o Copies(BulkPool[3], counts[3]) \o Copies(BulkPool[4], counts[4])
              \o Copies(BulkPool[5], counts[5])
  IN  [i \in 1..Len(rows) |-> [id |-> i] @@ rows[i]]

InitBulk ==
  /\ jobs \in {BulkStore(counts) : counts \in [1..5 -> BulkCounts]}
  /\ result = NoResult

NextBulk ==
  \/ RemoteWorkTrends
  \/ Respond

SpecBulk == InitBulk /\ [][NextBulk]_vars

\* Work-type shares of one location: none, one or a batch of the Remote and
\* of the Hybrid row of BulkPool, none or one of each other row
InitShares ==
  /\ jobs \in {BulkStore(counts) :
                 counts \in {c \in [1..5 -> {0, 1, RemoteBatch, HybridBatch}] :
                              /\ c[1] \in {0, 1, RemoteBatch}
                              /\ c[2] \in {0, 1, HybridBatch}
                              /\ \A i \in 3..5 : c[i] \in {0, 1}}}
  /\ result = NoResult

NextShares ==
  \/ LocationInsights
  \/ Respond

SpecShares == InitShares /\ [][NextShares]_vars
-----------------------------------------------------------------------------
(* Vocabulary of the properties, stated without the operators above *)

\* an eligible record: both salary bounds present
Eligible(job) == job.salary_min # NullNum /\ job.salary_max # NullNum

EligibleOnly(store) == SelectSeq(store, Eligible)

NoEligible(store) == \A i \in 1..Len(store) : ~Eligible(store[i])

\* twice the midpoint salary of an eligible record
Mid2(job) == job.salary_min + job.salary_max

SameLetter(a, b) == a = b \/ \E i \in 1..26 : {a, b} = {UpperCase[i], LowerCase[i]}

\* needle occurs in haystack as a literal substring, letter case ignored
Contains(haystack, needle) ==
  /\ haystack # NULL
  /\ \E k \in 0..(Len(haystack) - Len(needle)) :
       \A i \in 1..Len(needle) : SameLetter(haystack[k + i], needle[i])

\* the records salaryInsights(location, skill) is about
Matching(store, location, skill) ==
  SelectSeq(store, LAMBDA job :
    /\ Eligible(job)
    /\ Truthy(location) => Contains(job.location, location)
    /\ Truthy(skill) => Contains(job.skills, skill))

\* n is an integer nearest to num / den (den > 0)
Nearest(n, num, den) == 2 * (n * den - num) <= den /\ 2 * (num - n * den) <= den

NonIncreasing(s, field) == \A i \in 1..(Len(s) - 1) : s[i][field] >= s[i + 1][field]

Called(op) == result.op = op

-----------------------------------------------------------------------------
\* C1: an empty eligible population never raises and yields the documented
\* default: salaryInsights returns five zeros for a filter that matches no
\* eligible record; on a store without eligible records salaryByLocation,
\* topSkills, locationInsights, companyInsights, remoteWorkTrends and
\* salaryComparison return empty sequences, skillSalaryImpact returns 0 in
\* every numeric field and marketSummary returns avgSalary 0, highest paying
\* location "N/A" and remotePercentage 0.
C1_EmptyPopulationDefaults ==
  /\ Called("get_salary_insights")
       /\ Matching(jobs, result.location, result.skill) = <<>>
     => result.ret = Ok([count |-> 0, avg_salary |-> 0, min_salary |-> 0,
                         max_salary |-> 0, median_salary |-> 0])
  /\ result.op \in {"get_salary_by_location", "get_top_skills", "get_location_insights",
                    "get_company_insights", "get_remote_work_trends",
                    "get_salary_comparison"}
       /\ NoEligible(jobs)
     => result.ret = Ok(<<>>)
  /\ Called("get_skill_salary_impact") /\ NoEligible(jobs)
     => /\ ~result.ret.raised
        /\ result.ret.value.average_salary = 0
        /\ result.ret.value.market_average = 0
        /\ result.ret.value.salary_difference = 0
        /\ result.ret.value.percentage_increase = 0
  /\ Called("generate_market_summary") /\ NoEligible(jobs)
     => /\ ~result.ret.raised
        /\ result.ret.value.avg_salary = 0
        /\ result.ret.value.highest_paying_location = NA
        /\ result.ret.value.remote_percentage = 0

\* salaryInsights was asked for a place no record is in, on a store that
\* holds an eligible record
C1_Witness ==
  /\ Called("get_salary_insights")
  /\ ~NoEligible(jobs)
  /\ result.location = Nowhere
  /\ ~result.ret.raised
  /\ result.ret.value.count = 0

-----------------------------------------------------------------------------
\* C2: for N >= 1 matched records with midpoints m_i, salaryInsights returns
\* count = N, medianSalary = the element at index floor(N/2) of the ascending
\* midpoints (the upper middle one for even N: [10,20,30,40] gives 30) and
\* avgSalary = the mean of the midpoints rounded to the nearest integer.
IsElementAt(m, mids, index) ==
  /\ \E i \in 1..Len(mids) : mids[i] = m
  /\ Cardinality({i \in 1..Len(mids) : mids[i] < m}) <= index
  /\ Cardinality({i \in 1..Len(mids) : mids[i] <= m}) > index

C2_CountMedianAverage ==
  Called("get_salary_insights") =>
    LET matched == Matching(jobs, result.location, result.skill)
        mids == [i \in 1..Len(matched) |-> Mid2(matched[i])]
        N == Len(matched)
    IN  N > 0 =>
          /\ ~result.ret.raised
          /\ result.ret.value.count = N
          /\ IsElementAt(result.ret.value.median_salary, mids, N \div 2)
          /\ Nearest(result.ret.value.avg_salary, Sum(mids), 2 * N)
          /\ {mids[i] : i \in 1..N} = {20, 40, 60, 80} /\ N = 4
             => result.ret.value.median_salary = 60

\* the midpoints 10, 20, 30, 40 were analysed and the median came out as 30
C2_Witness ==
  /\ Called("get_salary_insights")
  /\ LET matched == Matching(jobs, result.location, result.skill)
     IN  /\ Len(matched) = 4
         /\ {Mid2(matched[i]) : i \in 1..4} = {20, 40, 60, 80}
  /\ result.ret.value.median_salary = 60
  /\ result.ret.value.avg_salary = 25

-----------------------------------------------------------------------------
\* C3: records with a null salaryMin or salaryMax contribute to nothing: on the
\* store and on the store without them salaryInsights, salaryByLocation,
\* topSkills, locationInsights, companyInsights, salaryComparison and
\* skillSalaryImpact can return the same results, and remoteWorkTrends the same
\* groups with the same jobCount and avgSalary.
TrendsWithoutPercentage(ret) ==
  [i \in 1..Len(ret.value) |->
     [type |-> ret.value[i].type, job_count |-> ret.value[i].job_count,
      avg_salary |-> ret.value[i].avg_salary]]

C3_NullSalaryExcluded ==
  LET eligible == EligibleOnly(jobs)
  IN  /\ Called("get_salary_insights")
         => result.ret = get_salary_insights(eligible, result.location, result.skill)
      /\ Called("get_salary_by_location")
         => result.ret \in get_salary_by_location(eligible)
      /\ Called("get_top_skills")
         => result.ret = get_top_skills(eligible, result.limit)
      /\ Called("get_location_insights")
         => result.ret \in get_location_insights(eligible)
      /\ Called("get_company_insights")
         => result.ret \in get_company_insights(eligible, result.limit)
      /\ Called("get_salary_comparison")
         => result.ret = get_salary_comparison(eligible, result.locations_list)
      /\ Called("get_skill_salary_impact")
         => result.ret = get_skill_salary_impact(eligible, result.base_skill)
      /\ Called("get_remote_work_trends")
         => /\ ~result.ret.raised
            /\ \E other \in get_remote_work_trends(eligible) :
                 TrendsWithoutPercentage(other) = TrendsWithoutPercentage(result.ret)

\* topSkills answered on a store holding an eligible record, a record with
\* only salaryMin null and a record with only salaryMax null
C3_Witness ==
  /\ Called("get_top_skills")
  /\ result.ret.value # <<>>
  /\ \E i, j, k \in 1..Len(jobs) :
       /\ Eligible(jobs[i])
       /\ jobs[j].salary_min = NullNum /\ jobs[j].salary_max # NullNum
       /\ jobs[k].salary_min # NullNum /\ jobs[k].salary_max = NullNum

-----------------------------------------------------------------------------
(* Skill occurrences, counted from the text of the skills field *)

\* token is skill with blanks around it
TrimmedEquals(token, skill) ==
  /\ skill # <<>>
  /\ skill[1] \notin Whitespace /\ skill[Len(skill)] \notin Whitespace
  /\ \E lead \in 0..Len(token) :
       /\ lead + Len(skill) <= Len(token)
       /\ SubSeq(token, lead + 1, lead + Len(skill)) = skill
       /\ \A i \in 1..Len(token) :
            (i <= lead \/ i > lead + Len(skill)) => token[i] \in Whitespace

\* the number of comma-separated tokens of text that are skill once trimmed
Mentions(text, skill) ==
  IF text = NULL THEN 0
  ELSE LET cuts == {0, Len(text) + 1} \cup {i \in 1..Len(text) : text[i] = ","}
       IN  Cardinality({c \in cuts \X cuts :
             /\ c[1] < c[2]
             /\ \A d \in cuts : ~(c[1] < d /\ d < c[2])
             /\ TrimmedEquals(SubSeq(text, c[1] + 1, c[2] - 1), skill)})

\* occurrences of skill over the eligible records, and twice the sum of the
\* midpoints taken once per occurrence
Occurrences(store, skill) ==
  Sum([i \in 1..Len(store) |->
         IF Eligible(store[i]) THEN Mentions(store[i].skills, skill) ELSE 0])

OccurrenceSalaries(store, skill) ==
  Sum([i \in 1..Len(store) |->
         IF Eligible(store[i])
         THEN Mentions(store[i].skills, skill) * Mid2(store[i]) ELSE 0])

\* pct (in tenths) is part / whole * 100 rounded to one decimal
NearestTenth(pct, part, whole) == Nearest(pct, 1000 * part, whole)

-----------------------------------------------------------------------------
\* C4: for every store and every limit n >= 0, topSkills(n) returns at most n
\* entries and every entry's percentage lies in [0, 100].
C4_AtMostLimitPercentInRange ==
  Called("get_top_skills") =>
    /\ ~result.ret.raised
    /\ Len(result.ret.value) <= result.limit
    /\ \A i \in 1..Len(result.ret.value) :
         /\ result.ret.value[i].percentage >= 0
         /\ result.ret.value[i].percentage <= 1000

-----------------------------------------------------------------------------
\* C5: topSkills counts per occurrence: jobCount of a returned skill is the
\* number of non-empty trimmed comma-separated tokens equal to it over the
\* eligible records, avgSalary the rounded mean of the midpoints taken once
\* per occurrence; no returned skill is empty or has blanks around it; the
\* three records "Python, SQL" 80000/90000, "Python" 100000/110000 and
\* "SQL, Java" 60000/70000 give Python 2/95000, SQL 2/75000, Java 1/65000.
ScenarioStore(store) ==
  /\ Len(store) = 3
  /\ {[skills |-> store[i].skills, salary_min |-> store[i].salary_min,
       salary_max |-> store[i].salary_max] : i \in 1..3}
     = {[skills |-> PythonSQL, salary_min |-> 80000, salary_max |-> 90000],
        [skills |-> Python, salary_min |-> 100000, salary_max |-> 110000],
        [skills |-> SQLJava, salary_min |-> 60000, salary_max |-> 70000]}

ScenarioAnswer(value) ==
  {[skill |-> value[i].skill, job_count |-> value[i].job_count,
    avg_salary |-> value[i].avg_salary] : i \in 1..Len(value)}
  = {[skill |-> Python, job_count |-> 2, avg_salary |-> 95000],
     [skill |-> SQL, job_count |-> 2, avg_salary |-> 75000],
     [skill |-> Java, job_count |-> 1, avg_salary |-> 65000]}

C5_PerOccurrenceCounts ==
  Called("get_top_skills") =>
    /\ ~result.ret.raised
    /\ \A i \in 1..Len(result.ret.value) :
         LET entry == result.ret.value[i]
         IN  /\ entry.skill # <<>>
             /\ entry.skill[1] \notin Whitespace
             /\ entry.skill[Len(entry.skill)] \notin Whitespace
             /\ entry.job_count = Occurrences(jobs, entry.skill)
             /\ entry.job_count > 0
             /\ Nearest(entry.avg_salary, OccurrenceSalaries(jobs, entry.skill),
                        2 * entry.job_count)
    /\ ScenarioStore(jobs) /\ result.limit >= 3 => ScenarioAnswer(result.ret.value)

\* a record that lists Python twice was counted twice, next to another record
C5_Witness ==
  /\ Called("get_top_skills")
  /\ Len(EligibleOnly(jobs)) >= 2
  /\ \E i \in 1..Len(jobs) : Eligible(jobs[i]) /\ Mentions(jobs[i].skills, Python) = 2
  /\ \E i \in 1..Len(result.ret.value) :
       /\ result.ret.value[i].skill = Python
       /\ result.ret.value[i].job_count >= 3

\* the three-record scenario was analysed
C5_ScenarioReached ==
  Called("get_top_skills") /\ ScenarioStore(jobs) /\ result.limit >= 3

-----------------------------------------------------------------------------
\* C6 as stated: percentage = occurrences / number of eligible records * 100,
\* rounded to one decimal.
C6_PercentOfEligible ==
  Called("get_top_skills") =>
    \A i \in 1..Len(result.ret.value) :
      NearestTenth(result.ret.value[i].percentage,
                   result.ret.value[i].job_count, Len(EligibleOnly(jobs)))

\* C6 amended: percentage = occurrences / number of eligible records whose
\* skills field is not null * 100, rounded to one decimal.
WithSkillsField(store) ==
  SelectSeq(store, LAMBDA job : Eligible(job) /\ job.skills # NULL)

C6_PercentOfEligibleWithSkills ==
  Called("get_top_skills") =>
    \A i \in 1..Len(result.ret.value) :
      /\ result.ret.value[i].job_count = Occurrences(jobs, result.ret.value[i].skill)
      /\ NearestTenth(result.ret.value[i].percentage,
                      result.ret.value[i].job_count, Len(WithSkillsField(jobs)))

\* a skill was returned while an eligible record had no skills field
C6_Witness ==
  /\ Called("get_top_skills")
  /\ result.ret.value # <<>>
  /\ Len(WithSkillsField(jobs)) < Len(EligibleOnly(jobs))
  /\ Len(WithSkillsField(jobs)) >= 2

-----------------------------------------------------------------------------
\* C7: salaryByLocation returns a sequence that is non-increasing in the
\* returned avgSalary, with exactly one entry per distinct exact location
\* string among the eligible records, whose jobCount is the number of eligible
\* records with that exact location.
EligibleAt(store, field, key) ==
  Cardinality({i \in 1..Len(store) : Eligible(store[i]) /\ store[i][field] = key})

EligibleKeys(store, field) ==
  {store[i][field] : i \in {k \in 1..Len(store) : Eligible(store[k])}}

\* value has exactly one entry per key of the eligible records
OnePerKey(value, keyField, store, field) ==
  /\ {value[i][keyField] : i \in 1..Len(value)} = EligibleKeys(store, field)
  /\ \A i, j \in 1..Len(value) : i # j => value[i][keyField] # value[j][keyField]

C7_SalaryByLocationGroups ==
  Called("get_salary_by_location") =>
    /\ ~result.ret.raised
    /\ NonIncreasing(result.ret.value, "avg_salary")
    /\ OnePerKey(result.ret.value, "location", jobs, "location")
    /\ \A i \in 1..Len(result.ret.value) :
         result.ret.value[i].job_count
           = EligibleAt(jobs, "location", result.ret.value[i].location)

\* three locations with three different averages came back
C7_Witness ==
  /\ Called("get_salary_by_location")
  /\ Len(result.ret.value) = 3
  /\ result.ret.value[1].avg_salary > result.ret.value[2].avg_salary
  /\ result.ret.value[2].avg_salary > result.ret.value[3].avg_salary

-----------------------------------------------------------------------------
\* C8: grouping is by exact string, filtering by case-insensitive substring:
\* eligible records at "Boston, MA" and at "boston, ma" form two distinct
\* locationInsights groups (each of totalJobs 1 when there is one record of
\* each), whereas salaryInsights(location = "Boston, MA") counts both.
C8_ExactGroupsFoldedFilter ==
  /\ Called("get_location_insights") =>
       /\ ~result.ret.raised
       /\ OnePerKey(result.ret.value, "location", jobs, "location")
       /\ \A i \in 1..Len(result.ret.value) :
            result.ret.value[i].total_jobs
              = EligibleAt(jobs, "location", result.ret.value[i].location)
  /\ Called("get_salary_insights") /\ result.location = BostonMA /\ ~Truthy(result.skill) =>
       /\ ~result.ret.raised
       /\ result.ret.value.count
            = EligibleAt(jobs, "location", BostonMA) + EligibleAt(jobs, "location", bostonma)

\* one eligible record at each spelling: two groups of one
C8_Witness ==
  /\ Called("get_location_insights")
  /\ EligibleAt(jobs, "location", BostonMA) = 1
  /\ EligibleAt(jobs, "location", bostonma) = 1
  /\ \E i, j \in 1..Len(result.ret.value) :
       /\ result.ret.value[i].location = BostonMA /\ result.ret.value[i].total_jobs = 1
       /\ result.ret.value[j].location = bostonma /\ result.ret.value[j].total_jobs = 1

\* on such a store the filter "Boston, MA" counted both records
C8_FilterReached ==
  /\ Called("get_salary_insights") /\ result.location = BostonMA /\ result.skill = NULL
  /\ EligibleAt(jobs, "location", BostonMA) = 1
  /\ EligibleAt(jobs, "location", bostonma) = 1
  /\ result.ret.value.count = 2

-----------------------------------------------------------------------------
\* C9 as stated: remoteWorkTrends gives each group (eligible records with one
\* exact remote value, null being a group) the percentage jobCount / unfiltered
\* record count; whenever the store holds a non-eligible record the percentages
\* of the returned groups sum to less than 100; the result is sorted
\* descending by jobCount.
SumOf(value, field) == Sum([i \in 1..Len(value) |-> value[i][field]])

HasNonEligible(store) == \E i \in 1..Len(store) : ~Eligible(store[i])

TrendsGroups ==
  /\ ~result.ret.raised
  /\ OnePerKey(result.ret.value, "type", jobs, "remote")
  /\ \A i \in 1..Len(result.ret.value) :
       /\ result.ret.value[i].job_count
            = EligibleAt(jobs, "remote", result.ret.value[i].type)
       /\ NearestTenth(result.ret.value[i].percentage,
                       result.ret.value[i].job_count, Len(jobs))
  /\ NonIncreasing(result.ret.value, "job_count")

C9_PercentagesSumBelow100 ==
  Called("get_remote_work_trends") =>
    /\ TrendsGroups
    /\ HasNonEligible(jobs) => SumOf(result.ret.value, "percentage") < 1000

\* C9 amended: same groups, percentages and order; whenever the store holds a
\* non-eligible record the jobCounts of the returned groups sum to less than
\* the unfiltered record count, so the exact shares sum to less than 100 (the
\* returned percentages, each rounded to one decimal, need not).
C9_SharesOfAllRecords ==
  Called("get_remote_work_trends") =>
    /\ TrendsGroups
    /\ HasNonEligible(jobs) => SumOf(result.ret.value, "job_count") < Len(jobs)

\* four groups shared a store that also holds a record without salary, and
\* their rounded percentages added up to 100.0
C9_Witness ==
  /\ Called("get_remote_work_trends")
  /\ HasNonEligible(jobs)
  /\ Len(result.ret.value) = 4
  /\ SumOf(result.ret.value, "job_count") < Len(jobs)
  /\ SumOf(result.ret.value, "percentage") = 1000

-----------------------------------------------------------------------------
\* C10: salaryComparison(locationList) returns exactly one entry per element
\* of locationList whose salaryInsights(location = element).count is > 0, with
\* that call's count and avgSalary, sorted descending by avgSalary whatever the
\* input order.
TimesIn(s, x) == Cardinality({i \in 1..Len(s) : s[i] = x})

C10_ComparisonEntries ==
  Called("get_salary_comparison") =>
    /\ ~result.ret.raised
    /\ \A location \in ComparisonLocations :
         LET insights == get_salary_insights(jobs, location, NULL).value
             entries == SelectSeq(result.ret.value, LAMBDA e : e.location = location)
         IN  /\ Len(entries) = IF insights.count > 0
                               THEN TimesIn(result.locations_list, location) ELSE 0
             /\ \A i \in 1..Len(entries) :
                  /\ entries[i].job_count = insights.count
                  /\ entries[i].avg_salary = insights.avg_salary
    /\ \A i \in 1..Len(result.ret.value) :
         result.ret.value[i].location \in ComparisonLocations
    /\ NonIncreasing(result.ret.value, "avg_salary")

\* a list given in ascending order of average came back reversed, and a
\* location without records was left out
C10_Witness ==
  /\ Called("get_salary_comparison")
  /\ Len(result.locations_list) = 2
  /\ Len(result.ret.value) = 2
  /\ result.ret.value[1].location = result.locations_list[2]
  /\ result.ret.value[1].avg_salary > result.ret.value[2].avg_salary

C10_OmissionReached ==
  /\ Called("get_salary_comparison")
  /\ result.locations_list = <<Nowhere, BostonMA>>
  /\ Len(result.ret.value) = 1

-----------------------------------------------------------------------------
\* C11: in skillSalaryImpact(skill), marketAverage is the rounded mean midpoint
\* of the eligible records whose skills field does not contain the skill
\* (case-insensitive; a null or empty field contains no skill), 0 when there is
\* none; every eligible record is in exactly one of the populations behind
\* averageSalary and marketAverage.
WithSkill(store, skill) ==
  SelectSeq(store, LAMBDA job : Eligible(job) /\ Contains(job.skills, skill))

WithoutSkill(store, skill) ==
  SelectSeq(store, LAMBDA job : Eligible(job) /\ ~Contains(job.skills, skill))

Mids(rows) == [i \in 1..Len(rows) |-> Mid2(rows[i])]

\* avg is 0 for no rows, else the mean midpoint of the rows rounded
RoundedMeanOrZero(avg, rows) ==
  IF rows = <<>> THEN avg = 0 ELSE Nearest(avg, Sum(Mids(rows)), 2 * Len(rows))

C11_MarketAverageIsTheRest ==
  Called("get_skill_salary_impact") =>
    /\ ~result.ret.raised
    /\ RoundedMeanOrZero(result.ret.value.average_salary,
                         WithSkill(jobs, result.base_skill))
    /\ RoundedMeanOrZero(result.ret.value.market_average,
                         WithoutSkill(jobs, result.base_skill))

-----------------------------------------------------------------------------
\* C12 as stated: if marketAverage = 0 then salaryDifference = 0 and
\* percentageIncrease = 0; otherwise salaryDifference = averageSalary -
\* marketAverage, computed from the returned fields.
C12_DifferenceOfReturnedFields ==
  Called("get_skill_salary_impact") =>
    LET v == result.ret.value
    IN  IF v.market_average = 0
        THEN v.salary_difference = 0 /\ v.percentage_increase = 0
        ELSE v.salary_difference = v.average_salary - v.market_average

\* C12 amended: with B the eligible records whose skills field is not null and
\* does not contain the skill, and m their exact mean midpoint: if B is empty
\* or m is not above 0 then salaryDifference = 0 and percentageIncrease = 0
\* (averageSalary is not zeroed); otherwise salaryDifference is averageSalary -
\* m rounded to an integer (a tie to the even one), which is within 1 of averageSalary - marketAverage,
\* and percentageIncrease is (averageSalary - m) / m * 100 rounded to one
\* decimal.
Baseline(store, skill) ==
  SelectSeq(store, LAMBDA job :
    Eligible(job) /\ job.skills # NULL /\ ~Contains(job.skills, skill))

\* n is num / den rounded to an integer, a tie going to the even neighbour
NearestEven(n, num, den) ==
  /\ Nearest(n, num, den)
  /\ (2 * (n * den - num) \in {den, 0 - den} => n % 2 = 0)

C12_DifferenceOfExactMean ==
  Called("get_skill_salary_impact") =>
    LET v == result.ret.value
        rows == Baseline(jobs, result.base_skill)
        num == Sum(Mids(rows))
        den == 2 * Len(rows)
    IN  /\ ~result.ret.raised
        /\ RoundedMeanOrZero(v.average_salary, WithSkill(jobs, result.base_skill))
        /\ IF rows = <<>> \/ num <= 0
           THEN v.salary_difference = 0 /\ v.percentage_increase = 0
           ELSE /\ NearestEven(v.salary_difference, v.average_salary * den - num, den)
                /\ v.salary_difference - (v.average_salary - v.market_average) \in {-1, 0, 1}
                /\ Nearest(v.percentage_increase,
                           1000 * (v.average_salary * den - num), num)

\* the baseline mean was a half-integer, the skill's average odd, and the
\* returned difference is not the difference of the returned fields
C12_Witness ==
  /\ Called("get_skill_salary_impact")
  /\ result.ret.value.market_average # 0
  /\ result.ret.value.average_salary % 2 = 1
  /\ result.ret.value.salary_difference
       # result.ret.value.average_salary - result.ret.value.market_average

-----------------------------------------------------------------------------
\* C13: on an unchanged store every field of marketSummary equals what the
\* component operations return when called separately: totalJobs the record
\* count, avgSalary that of salaryInsights(), topSkills the names of
\* topSkills(5) in order, highestPayingLocation the location of the first entry
\* of salaryByLocation() (a group of maximal average) or "N/A" when it is
\* empty, remotePercentage the percentage of the remoteWorkTrends() entry of
\* type "Remote" or 0 when there is none.
RowsAt(store, field, key) ==
  SelectSeq(store, LAMBDA job : Eligible(job) /\ job[field] = key)

RoundedAvgAt(store, field, key) ==
  LET rows == RowsAt(store, field, key)
  IN  RoundHalfEven(Sum(Mids(rows)), 2 * Len(rows))

C13_SummaryEqualsComponents ==
  Called("generate_market_summary") =>
    LET v == result.ret.value
        names == get_top_skills(jobs, 5).value
    IN  /\ ~result.ret.raised
        /\ v.total_jobs = Len(jobs)
        /\ v.total_jobs = get_total_jobs_count(jobs)
        /\ v.avg_salary = get_salary_insights(jobs, NULL, NULL).value.avg_salary
        /\ v.top_skills = [i \in 1..Len(names) |-> names[i].skill]
        /\ \E by_location \in get_salary_by_location(jobs) :
             IF by_location.value = <<>>
             THEN v.highest_paying_location = NA
             ELSE v.highest_paying_location = by_location.value[1].location
        /\ IF NoEligible(jobs)
           THEN v.highest_paying_location = NA
           ELSE /\ v.highest_paying_location \in EligibleKeys(jobs, "location")
                /\ \A key \in EligibleKeys(jobs, "location") :
                     RoundedAvgAt(jobs, "location", v.highest_paying_location)
                       >= RoundedAvgAt(jobs, "location", key)
        /\ \E trends \in get_remote_work_trends(jobs) :
             IF \E i \in 1..Len(trends.value) : trends.value[i].type = Remote
             THEN \E i \in 1..Len(trends.value) :
                    /\ trends.value[i].type = Remote
                    /\ v.remote_percentage = trends.value[i].percentage
             ELSE v.remote_percentage = 0
        /\ IF EligibleAt(jobs, "remote", Remote) = 0
           THEN v.remote_percentage = 0
           ELSE NearestTenth(v.remote_percentage,
                             EligibleAt(jobs, "remote", Remote), Len(jobs))

\* a summary of a store with two work types, "Remote" among them, two
\* locations of different average and a skill
C13_Witness ==
  /\ Called("generate_market_summary")
  /\ Cardinality(EligibleKeys(jobs, "remote")) >= 2
  /\ Cardinality(EligibleKeys(jobs, "location")) >= 2
  /\ result.ret.value.remote_percentage > 0
  /\ result.ret.value.top_skills # <<>>
  /\ result.ret.value.highest_paying_location # NA

\* a summary of a store that has eligible records but none of type "Remote"
C13_NoRemoteReached ==
  /\ Called("generate_market_summary")
  /\ ~NoEligible(jobs)
  /\ EligibleAt(jobs, "remote", Remote) = 0
  /\ result.ret.value.remote_percentage = 0

-----------------------------------------------------------------------------
\* C14: companyInsights(limit) returns at most limit entries, one per exact
\* company string among eligible records, sorted descending by jobCount; every
\* entry's salaryRange is the formatted "$<min> - $<max>" of the group's
\* minimum and maximum midpoint, and "N/A" only for a null bound (a bound of 0
\* is formatted).
Least(S) == CHOOSE x \in S : \A y \in S : x <= y

Greatest(S) == CHOOSE x \in S : \A y \in S : x >= y

Mid2At(store, field, key) ==
  {Mid2(store[i]) : i \in {k \in 1..Len(store) :
                             Eligible(store[k]) /\ store[k][field] = key}}

C14_CompanyGroupsFormatted ==
  Called("get_company_insights") =>
    LET value == result.ret.value
    IN  /\ ~result.ret.raised
        /\ Len(value) <= result.limit
        /\ Len(value) = Min(<<result.limit,
                              Cardinality(EligibleKeys(jobs, "company"))>>)
        /\ \A i, j \in 1..Len(value) : i # j => value[i].company # value[j].company
        /\ NonIncreasing(value, "job_count")
        /\ \A i \in 1..Len(value) :
             /\ value[i].company \in EligibleKeys(jobs, "company")
             /\ value[i].job_count = EligibleAt(jobs, "company", value[i].company)
             /\ value[i].salary_range
                  = format_range(Least(Mid2At(jobs, "company", value[i].company)),
                                 Greatest(Mid2At(jobs, "company", value[i].company)))

-----------------------------------------------------------------------------
\* C15: every aggregation operation (salaryInsights, salaryByLocation,
\* topSkills, locationInsights, companyInsights, remoteWorkTrends,
\* salaryComparison, skillSalaryImpact, marketSummary) leaves the stored job
\* records unchanged: a step that returns from one of them has the same
\* records, with the same fields, after it as before it, and so has any
\* sequence of such steps.
Aggregations ==
  {"get_salary_insights", "get_salary_by_location", "get_top_skills",
   "get_location_insights", "get_company_insights", "get_remote_work_trends",
   "get_salary_comparison", "get_skill_salary_impact", "generate_market_summary"}

C15_AggregationsKeepStore ==
  [][(result'.op \in Aggregations \/ result.op \in Aggregations) => jobs' = jobs]_vars

\* a store with a record without skills, after an aggregation over it
C15_Witness ==
  /\ result.op \in Aggregations
  /\ \E i \in 1..Len(jobs) : ~Truthy(jobs[i].skills)
  /\ Len(jobs) >= 2

-----------------------------------------------------------------------------
\* C16: topSkills ranks skills by occurrence count descending and, among
\* skills of equal count, puts first the one whose first occurrence comes
\* earlier in the scan of the fetched records and their token lists; the
\* truncation to limit keeps the earliest-seen of the skills tied at the cut.
KnownSkills == {Python, SQL, Java, <<"j", "a", "v", "a">>}

\* the places (record, comma before the token) at which skill occurs, as one
\* number that grows along the scan
Sightings(store, skill) ==
  UNION {LET text == store[i].skills
             cuts == {0, Len(text) + 1} \cup {k \in 1..Len(text) : text[k] = ","}
         IN  {i * 100 + c[1] : c \in {d \in cuts \X cuts :
                /\ d[1] < d[2]
                /\ \A e \in cuts : ~(d[1] < e /\ e < d[2])
                /\ TrimmedEquals(SubSeq(text, d[1] + 1, d[2] - 1), skill)}} :
         i \in {k \in 1..Len(store) : Eligible(store[k]) /\ store[k].skills # NULL}}

FirstSeen(store, skill) == Least(Sightings(store, skill))

SeenSkills(store) == {skill \in KnownSkills : Sightings(store, skill) # {}}

RankedBefore(store, a, b) ==
  \/ Cardinality(Sightings(store, a)) > Cardinality(Sightings(store, b))
  \/ /\ Cardinality(Sightings(store, a)) = Cardinality(Sightings(store, b))
     /\ FirstSeen(store, a) < FirstSeen(store, b)

C16_TiesFirstSeenFirst ==
  Called("get_top_skills") =>
    LET value == result.ret.value
        returned == {value[i].skill : i \in 1..Len(value)}
    IN  /\ ~result.ret.raised
        /\ Len(value) = Min(<<result.limit, Cardinality(SeenSkills(jobs))>>)
        /\ returned \subseteq SeenSkills(jobs)
        /\ \A i, j \in 1..Len(value) :
             i < j => RankedBefore(jobs, value[i].skill, value[j].skill)
        /\ \A skill \in SeenSkills(jobs) \ returned :
             \A i \in 1..Len(value) : RankedBefore(jobs, value[i].skill, skill)

\* a cut between two skills of equal count: the last one returned and one
\* left out, and two returned skills of equal count
C16_Witness ==
  /\ Called("get_top_skills")
  /\ Len(result.ret.value) >= 2
  /\ result.ret.value[1].job_count = result.ret.value[2].job_count
  /\ \E skill \in SeenSkills(jobs) :
       /\ \A i \in 1..Len(result.ret.value) : result.ret.value[i].skill # skill
       /\ Cardinality(Sightings(jobs, skill))
            = result.ret.value[Len(result.ret.value)].job_count

-----------------------------------------------------------------------------
\* C17: each aggregation call reads a single consistent store state: if a
\* batch of generate_and_save_jobs commits while remoteWorkTrends or
\* marketSummary is between its queries, the result still equals the result on
\* the store entirely before or entirely after that commit; no remoteWorkTrends
\* group has a jobCount above the total used as its denominator (no percentage
\* above 100), and marketSummary.totalJobs is the total remotePercentage was
\* computed against.
\* The store only grows, so the states it had during a call are its prefixes of
\* from .. upto rows.
StoreStates == {SubSeq(jobs, 1, n) : n \in result.from..result.upto}

C17_OneStoreStatePerCall ==
  /\ Called("get_remote_work_trends") =>
       /\ \E store \in StoreStates : result.ret \in get_remote_work_trends(store)
       /\ \A i \in 1..Len(result.ret.value) : result.ret.value[i].percentage <= 1000
  /\ Called("generate_market_summary") =>
       \E store \in StoreStates : result.ret \in generate_market_summary(store)

-----------------------------------------------------------------------------
\* C18: for every caller-supplied string s, salaryInsights(location = s), and
\* likewise skill = s, counts exactly the eligible records whose field contains
\* s as a literal, case-insensitive substring: the empty string matches every
\* eligible record, and a string with the characters % or _ matches only the
\* records whose field literally contains those characters.
C18_LiteralSubstringFilter ==
  Called("get_salary_insights") =>
    /\ ~result.ret.raised
    /\ result.ret.value.count = Len(Matching(jobs, result.location, result.skill))

-----------------------------------------------------------------------------
\* C19: for every group returned by locationInsights on any store, records of
\* a null or unlisted remote value included, remoteJobs + hybridJobs <=
\* totalJobs, so remotePercentage, hybridPercentage and onsitePercentage =
\* 100 - remotePercentage - hybridPercentage each lie in [0, 100]; the records
\* of any other remote value are the on-site ones.
C19_SharesWithinRange ==
  Called("get_location_insights") =>
    /\ ~result.ret.raised
    /\ \A i \in 1..Len(result.ret.value) :
         LET row == result.ret.value[i]
             here == RowsAt(jobs, "location", row.location)
         IN  /\ row.total_jobs = Len(here)
             /\ row.remote_jobs = Len(SelectSeq(here, LAMBDA job : job.remote = Remote))
             /\ row.hybrid_jobs = Len(SelectSeq(here, LAMBDA job : job.remote = Hybrid))
             /\ row.remote_jobs + row.hybrid_jobs <= row.total_jobs
             /\ row.remote_percentage \in 0..1000
             /\ row.hybrid_percentage \in 0..1000
             /\ row.onsite_percentage
                  = 1000 - row.remote_percentage - row.hybrid_percentage
             /\ row.onsite_percentage \in 0..1000

-----------------------------------------------------------------------------
\* C20 as stated: for every store and filter with count > 0, salaryInsights
\* returns minSalary <= medianSalary <= maxSalary and minSalary <= avgSalary <=
\* maxSalary, avgSalary being the returned, rounded value and the midpoints
\* possibly half-integers.
C20_AverageBetweenMinAndMax ==
  (Called("get_salary_insights") /\ ~result.ret.raised /\ result.ret.value.count > 0) =>
    LET v == result.ret.value
    IN  /\ v.min_salary <= v.median_salary /\ v.median_salary <= v.max_salary
        /\ v.min_salary <= 2 * v.avg_salary /\ 2 * v.avg_salary <= v.max_salary

\* C20 amended: for every store and filter with count > 0, minSalary and
\* maxSalary are the least and the greatest midpoint of the matching records,
\* minSalary <= medianSalary <= maxSalary, and the rounded avgSalary lies
\* between minSalary rounded down and maxSalary rounded up: it can be 0.5 below
\* minSalary or 0.5 above maxSalary when these are half-integers.
C20_AverageWithinRoundedBounds ==
  (Called("get_salary_insights") /\ ~result.ret.raised /\ result.ret.value.count > 0) =>
    LET v == result.ret.value
        matched == Matching(jobs, result.location, result.skill)
        mids == {Mid2(matched[i]) : i \in 1..Len(matched)}
    IN  /\ v.min_salary = Least(mids)
        /\ v.max_salary = Greatest(mids)
        /\ v.min_salary <= v.median_salary /\ v.median_salary <= v.max_salary
        /\ v.min_salary \div 2 <= v.avg_salary
        /\ v.avg_salary <= (v.max_salary + 1) \div 2

\* an average rounded to below the least midpoint
C20_Witness ==
  /\ Called("get_salary_insights")
  /\ result.ret.value.count > 0
  /\ 2 * result.ret.value.avg_salary < result.ret.value.min_salary

\* an average rounded to above the greatest midpoint
C20_AboveMaxReached ==
  /\ Called("get_salary_insights")
  /\ result.ret.value.count > 0
  /\ 2 * result.ret.value.avg_salary > result.ret.value.max_salary

====
